---------------------------- MODULE Spec2Model ----------------------------
(***************************************************************************)
(* Market data acquisition and normalisation pipeline of dash.py:          *)
(* fetch_live_prices, fetch_historical_market_chart and the                *)
(* st.cache_data(ttl=...) memoisation that wraps both.                     *)
(*                                                                         *)
(* Two specifications:                                                     *)
(*   Spec       the two function bodies applied to one upstream response   *)
(*              drawn from a bounded set (the functions are pure in the    *)
(*              response);                                                 *)
(*   SpecCache  the decorated functions as a state machine over a clock,   *)
(*              the upstream service and the two TTL caches.               *)
(*                                                                         *)
(* Python floats are modelled as exact rationals.  On the integer inputs   *)
(* drawn here the float expression of dash.py:51 has a zero denominator    *)
(* exactly when the rational one has, and the same order between elements. *)
(***************************************************************************)
EXTENDS Integers, Sequences, FiniteSets, TLC

VARIABLES
    pc,         \* harness position: "live" | "hist" before the call, "done" after
    response,   \* what requests.get / r.json() produce for the call under test
    result,     \* what the function returned (or that it raised)
    now,        \* the cache's clock
    upstream,   \* the service at this moment: "up" | "down"
    cache_live, \* st.cache_data store of fetch_live_prices: args -> entry
    cache_hist, \* st.cache_data store of fetch_historical_market_chart
    last,       \* the most recent cached call: args, time, value, request issued
    reqs,       \* the network requests issued so far, oldest first
    steps       \* number of clock advances and calls so far (bounds the run)

vars == <<pc, response, result, now, upstream, cache_live, cache_hist, last, reqs, steps>>

(***************************************************************************)
(* Bounds of the model.                                                    *)
(***************************************************************************)
NumCoins == 2       \* instruments a snapshot payload may hold
MaxPrice == 2       \* usd prices 0, 50, .. 50 * MaxPrice in the sparkline family
MaxChange == 610    \* usd_24h_change in -MaxChange..MaxChange (covers -600/i)
MaxSamples == 2     \* samples per history series
MaxTs == 3          \* sample timestamps 1..MaxTs (milliseconds)
MaxSteps == 4       \* calls and clock advances in a cache run

(***************************************************************************)
(* Program constants.                                                      *)
(***************************************************************************)
COIN_IDS == <<"bitcoin", "ethereum", "solana", "sui", "pyth-network", "cardano", "polkadot">>
TTL_LIVE == 60
TTL_HIST == 3600
HISTORY_DAYS == 90
SPARK_STEPS == 6

(***************************************************************************)
(* Rational numbers [n, d], d > 0, in lowest terms: Python's float.        *)
(***************************************************************************)
RECURSIVE GCD(_, _)
GCD(a, b) == IF b = 0 THEN a ELSE GCD(b, a % b)

Abs(x) == IF x < 0 THEN -x ELSE x

Rat(n, d) ==
    LET g == GCD(Abs(n), Abs(d))
        s == IF d < 0 THEN -1 ELSE 1
    IN  [n |-> (s * n) \div g, d |-> (s * d) \div g]

RAdd(a, b) == Rat(a.n * b.d + b.n * a.d, a.d * b.d)
RMul(a, b) == Rat(a.n * b.n, a.d * b.d)
RDiv(a, b) == Rat(a.n * b.d, a.d * b.n)
RLeq(a, b) == a.n * b.d <= b.n * a.d
RIsZero(a) == a.n = 0

\* float(x) of a JSON integer
Float(x) == Rat(x, 1)

(***************************************************************************)
(* JSON values of the payloads: null or a number.                          *)
(***************************************************************************)
Null == [t |-> "null", v |-> 0]
Num(x) == [t |-> "num", v |-> x]
IsNull(j) == j.t = "null"

\* dict.get(key, default)
Get(metrics, key, default) == IF key \in DOMAIN metrics THEN metrics[key] ELSE default

\* x or 0: None and 0 are falsy
OrZero(j) == IF IsNull(j) \/ j.v = 0 THEN Num(0) ELSE j

\* str.upper on the instrument identifiers
Upper(ticker) ==
    CASE ticker = "bitcoin" -> "BITCOIN"
      [] ticker = "ethereum" -> "ETHEREUM"
      [] ticker = "solana" -> "SOLANA"
      [] ticker = "sui" -> "SUI"
      [] ticker = "pyth-network" -> "PYTH-NETWORK"
      [] ticker = "cardano" -> "CARDANO"
      [] ticker = "polkadot" -> "POLKADOT"

(***************************************************************************)
(* fetch_live_prices                                                       *)
(***************************************************************************)
\* 1 + change_pct/100 * (i/6)
SparkDenominator(change_pct, i) ==
    RAdd(Float(1), RMul(RDiv(Float(change_pct), Float(100)), RDiv(Float(i), Float(SPARK_STEPS))))

\* mutant: range(0, 7), the steps counted up
SparklineAscending(last_price, change_pct) ==
    [k \in 1..(SPARK_STEPS + 1) |->
        RDiv(Float(last_price), SparkDenominator(change_pct, k - 1))]

\* the list comprehension of line 51, i = 6 down to 0 (element k is step 7 - k)
Sparkline(last_price, change_pct) ==
    [k \in 1..(SPARK_STEPS + 1) |->
        RDiv(Float(last_price), SparkDenominator(change_pct, SPARK_STEPS + 1 - k))]

\* the comprehension raises: TypeError on a None price, ZeroDivisionError on a zero step
SparklineRaises(last_price, change_pct) ==
    \/ IsNull(last_price)
    \/ \E i \in 0..SPARK_STEPS : RIsZero(SparkDenominator(change_pct.v, i))

\* one iteration of the loop: the row appended for (ticker, metrics)
LiveRow(ticker, metrics) ==
    LET last_price == Get(metrics, "usd", Num(0))
        change_pct == OrZero(Get(metrics, "usd_24h_change", Num(0)))
    IN  [id         |-> ticker,
         ticker     |-> Upper(ticker),
         last_price |-> Float(last_price.v),
         change_pct |-> Float(change_pct.v),
         volume     |-> Float(OrZero(Get(metrics, "usd_24h_vol", Num(0))).v),
         market_cap |-> Float(OrZero(Get(metrics, "usd_market_cap", Num(0))).v),
         open       |-> Sparkline(last_price.v, change_pct.v)]

\* one iteration raises
LiveRowRaises(metrics) ==
    SparklineRaises(Get(metrics, "usd", Num(0)),
                    OrZero(Get(metrics, "usd_24h_change", Num(0))))

\* the try block: raises on a transport failure, a non-success status, an
\* undecodable body, a payload that is no object, or inside the loop
LiveTryRaises(resp) ==
    \/ resp.kind # "ok"
    \/ \E k \in 1..Len(resp.payload) : LiveRowRaises(resp.payload[k].metrics)

LiveTryValue(resp) ==
    [k \in 1..Len(resp.payload) |-> LiveRow(resp.payload[k].ticker, resp.payload[k].metrics)]

EmptyFrame == <<>>

\* mutant: "except requests.RequestException:" lets every other exception through
LiveExceptRequestsOnly(resp) ==
    [raised |-> resp.kind \notin {"timeout", "connection_error", "http_error"},
     table |-> EmptyFrame]

\* mutant: the handler lists the transport and decoding errors, not ZeroDivisionError
LiveExceptNoArithmetic(resp) == [raised |-> resp.kind = "ok", table |-> EmptyFrame]

\* what a bare "except:" does with an exception raised in the try block
LiveExcept(resp) == [raised |-> FALSE, table |-> EmptyFrame]

fetch_live_prices(resp) ==
    IF LiveTryRaises(resp)
    THEN LiveExcept(resp)
    ELSE [raised |-> FALSE, table |-> LiveTryValue(resp)]

(***************************************************************************)
(* Upstream responses of the snapshot endpoint.                            *)
(***************************************************************************)
FailureKinds == {"timeout", "connection_error", "http_error", "undecodable", "not_an_object"}

Failure(kind) == [kind |-> kind, payload |-> <<>>]

Keys == {"usd", "usd_24h_change", "usd_24h_vol", "usd_market_cap"}

\* a metrics object: each key absent, null or a number
Absent == [t |-> "absent", v |-> 0]

Metrics(usd, chg, vol, cap) ==
    LET given == [k \in Keys |->
                    CASE k = "usd" -> usd
                      [] k = "usd_24h_change" -> chg
                      [] k = "usd_24h_vol" -> vol
                      [] k = "usd_market_cap" -> cap]
    IN  [k \in {x \in Keys : given[x] # Absent} |-> given[k]]

\* usd and usd_24h_change vary independently; usd_24h_vol and usd_market_cap,
\* which the code reads by the same expression, take every value once
VolCapPairs ==
    {<<Absent, Absent>>, <<Null, Null>>, <<Num(5), Num(7)>>,
     <<Absent, Null>>, <<Null, Num(7)>>, <<Num(5), Absent>>}

FieldMetrics ==
    {Metrics(u, c, vc[1], vc[2]) :
        u \in {Absent, Null, Num(100)}, c \in {Absent, Null, Num(-100)}, vc \in VolCapPairs}

NumericMetrics ==
    {Metrics(Num(50 * p), Num(c), Absent, Absent) :
        p \in 0..MaxPrice, c \in (-MaxChange)..MaxChange}

\* a JSON object holding the instruments of S, in the order of COIN_IDS
RECURSIVE PayloadFrom(_, _, _)
PayloadFrom(i, S, ms) ==
    IF i > Len(COIN_IDS) THEN <<>>
    ELSE IF COIN_IDS[i] \in S
         THEN <<[ticker |-> COIN_IDS[i], metrics |-> ms[COIN_IDS[i]]]>> \o PayloadFrom(i + 1, S, ms)
         ELSE PayloadFrom(i + 1, S, ms)

Ok(payload) == [kind |-> "ok", payload |-> payload]

Coins == {COIN_IDS[i] : i \in 1..NumCoins}

(***************************************************************************)
(* fetch_historical_market_chart                                           *)
(***************************************************************************)
NS_PER_MS == 1000000

\* pd.to_datetime(ts, unit="ms"): nanoseconds since the epoch
ToDatetime(ts) == ts * NS_PER_MS

\* pd.DataFrame(data.get("prices", []), columns=["ts", "close"]) with its "date" column
PricesFrame(data) ==
    LET samples == Get(data, "prices", <<>>)
    IN  [k \in 1..Len(samples) |->
            [ts |-> samples[k].ts, close |-> samples[k].val, date |-> ToDatetime(samples[k].ts)]]

\* pd.DataFrame(data.get("total_volumes", []), columns=["ts", "volume"]) with its "date" column
VolsFrame(data) ==
    LET samples == Get(data, "total_volumes", <<>>)
    IN  [k \in 1..Len(samples) |->
            [ts |-> samples[k].ts, volume |-> samples[k].val, date |-> ToDatetime(samples[k].ts)]]

\* mutant: a cross join, the key ignored
MergeRowsCross(p, vols) ==
    [k \in 1..Len(vols) |->
        [ts_x |-> p.ts, close |-> p.close, date |-> p.date,
         ts_y |-> vols[k].ts, volume |-> vols[k].volume]]

\* the rows of the join for one row of prices: its matches in vols, in the order of vols
MergeRows(p, vols) ==
    LET hits == SelectSeq(vols, LAMBDA v : v.date = p.date)
    IN  [k \in 1..Len(hits) |->
            [ts_x |-> p.ts, close |-> p.close, date |-> p.date,
             ts_y |-> hits[k].ts, volume |-> hits[k].volume]]

\* prices.merge(vols, on="date"): inner join, in the order of the left keys
RECURSIVE Merge(_, _)
Merge(prices, vols) ==
    IF prices = <<>> THEN <<>>
    ELSE MergeRows(Head(prices), vols) \o Merge(Tail(prices), vols)

\* df["close"].shift(1).fillna(df["close"]) at row k
OpenAt(df, k) ==
    IF k > 1 /\ ~IsNull(df[k - 1].close) THEN df[k - 1].close ELSE df[k].close

\* max(axis=1) and min(axis=1) of two cells, NaN skipped
RowMax(a, b) ==
    IF IsNull(a) THEN b ELSE IF IsNull(b) THEN a ELSE IF a.v >= b.v THEN a ELSE b

RowMin(a, b) ==
    IF IsNull(a) THEN b ELSE IF IsNull(b) THEN a ELSE IF a.v <= b.v THEN a ELSE b

\* the frame after lines 80-82, projected on the five columns; index is the RangeIndex label
WithOHLC(df) ==
    [k \in 1..Len(df) |->
        LET open == OpenAt(df, k)
        IN  [index |-> k - 1, open |-> open, high |-> RowMax(open, df[k].close),
             low |-> RowMin(open, df[k].close), close |-> df[k].close, volume |-> df[k].volume]]

HasNull(row) ==
    IsNull(row.open) \/ IsNull(row.high) \/ IsNull(row.low) \/ IsNull(row.close) \/ IsNull(row.volume)

\* .dropna(): rows keep their index labels
DropNa(df) == SelectSeq(df, LAMBDA row : ~HasNull(row))

\* the bars returned: float cells
Bars(df) ==
    [k \in 1..Len(df) |->
        [index |-> df[k].index, open |-> df[k].open.v, high |-> df[k].high.v,
         low |-> df[k].low.v, close |-> df[k].close.v, volume |-> df[k].volume.v]]

HistTryRaises(resp) == resp.kind # "ok"

HistTryValue(resp) ==
    LET prices == PricesFrame(resp.payload)
        vols == VolsFrame(resp.payload)
    IN  IF prices = <<>> \/ vols = <<>>
        THEN EmptyFrame
        ELSE Bars(DropNa(WithOHLC(Merge(prices, vols))))

HistExcept(resp) == [raised |-> FALSE, table |-> EmptyFrame]

fetch_historical_market_chart(resp) ==
    IF HistTryRaises(resp)
    THEN HistExcept(resp)
    ELSE [raised |-> FALSE, table |-> HistTryValue(resp)]

(***************************************************************************)
(* Upstream responses of the market_chart endpoint.                        *)
(***************************************************************************)
Timestamps == 1..MaxTs

\* the price and the volume the service reports at a timestamp, when not null
PriceAt(t) == 10 * t
VolumeAt(t) == 2 * t + 3

PriceSamples == {[ts |-> t, val |-> v] : t \in Timestamps, v \in {Null}} \cup
                {[ts |-> t, val |-> Num(PriceAt(t))] : t \in Timestamps}

VolumeSamples == {[ts |-> t, val |-> v] : t \in Timestamps, v \in {Null}} \cup
                 {[ts |-> t, val |-> Num(VolumeAt(t))] : t \in Timestamps}

\* the decoded object: a key with an empty series may also be absent
HistData(ps, vs, keys) ==
    [k \in keys |-> IF k = "prices" THEN ps ELSE vs]

NoResult == [raised |-> FALSE, table |-> <<>>]

\* no cached call made yet
NoCall ==
    [fn |-> "none", args |-> <<>>, at |-> 0, value |-> NoResult, requested |-> FALSE,
     upstream |-> "down"]

InitCacheIdle ==
    /\ now = 0
    /\ upstream = "down"
    /\ cache_live = <<>>
    /\ cache_hist = <<>>
    /\ last = NoCall
    /\ reqs = <<>>
    /\ steps = 0

InitLive ==
    /\ pc = "live"
    /\ \/ \E k \in FailureKinds : response = Failure(k)
       \/ \E S \in SUBSET Coins : \E ms \in [S -> FieldMetrics] :
             response = Ok(PayloadFrom(1, S, ms))
       \/ \E m \in NumericMetrics :
             response = Ok(PayloadFrom(1, {COIN_IDS[1]}, [c \in {COIN_IDS[1]} |-> m]))
    /\ result = NoResult
    /\ InitCacheIdle

InitHist ==
    /\ pc = "hist"
    /\ \/ \E k \in FailureKinds : response = Failure(k)
       \/ \E np \in 0..MaxSamples, nv \in 0..MaxSamples :
            \E ps \in [1..np -> PriceSamples], vs \in [1..nv -> VolumeSamples] :
              \E keys \in SUBSET {"prices", "total_volumes"} :
                /\ "prices" \notin keys => np = 0
                /\ "total_volumes" \notin keys => nv = 0
                /\ response = Ok(HistData(ps, vs, keys))
    /\ result = NoResult
    /\ InitCacheIdle

RunLive ==
    /\ pc = "live"
    /\ pc' = "done_live"
    /\ result' = fetch_live_prices(response)
    /\ UNCHANGED <<response, now, upstream, cache_live, cache_hist, last, reqs, steps>>

RunHist ==
    /\ pc = "hist"
    /\ pc' = "done_hist"
    /\ result' = fetch_historical_market_chart(response)
    /\ UNCHANGED <<response, now, upstream, cache_live, cache_hist, last, reqs, steps>>

Init == InitLive \/ InitHist

Next == RunLive \/ RunHist

Spec == Init /\ [][Next]_vars

(***************************************************************************)
(* st.cache_data(ttl=...): the decorated functions.                        *)
(***************************************************************************)
\* str(history_days)
Str(n) == CASE n = 90 -> "90"

\* the argument tuples the runs call with
LiveArgs == {SubSeq(COIN_IDS, 1, 1), SubSeq(COIN_IDS, 1, 2)}
HistArgs == {<<COIN_IDS[1], Str(HISTORY_DAYS)>>, <<COIN_IDS[2], Str(HISTORY_DAYS)>>}

\* the service's price moves with time
Quote(clock) == 100 + clock

\* what the snapshot endpoint answers for "ids" = coin_ids
LiveUpstream(u, clock, coin_ids) ==
    IF u = "down" THEN Failure("timeout")
    ELSE Ok([k \in 1..Len(coin_ids) |->
                [ticker |-> coin_ids[k],
                 metrics |-> Metrics(Num(Quote(clock)), Num(10), Num(5), Num(7))]])

\* what the market_chart endpoint answers for (coin_id, days)
HistUpstream(u, clock, args) ==
    IF u = "down" THEN Failure("http_error")
    ELSE Ok(HistData(<<[ts |-> 1, val |-> Num(Quote(clock))], [ts |-> 2, val |-> Num(Quote(clock) + 1)]>>,
                     <<[ts |-> 1, val |-> Num(5)], [ts |-> 2, val |-> Num(7)]>>,
                     {"prices", "total_volumes"}))

\* mutant: an entry of age exactly ttl is still served
FreshInclusive(entry, ttl, clock) == clock - entry.at <= ttl

\* an entry is served while it is younger than the ttl
Fresh(entry, ttl, clock) == clock - entry.at < ttl

CacheHit(cache, key, ttl, clock) == key \in DOMAIN cache /\ Fresh(cache[key], ttl, clock)

\* mutant: an empty table is not stored
StoreNonEmpty(cache, key, value, clock) ==
    IF value.table = <<>> THEN cache
    ELSE [k \in DOMAIN cache \cup {key} |->
            IF k = key THEN [at |-> clock, value |-> value] ELSE cache[k]]

\* a call that returned normally stores its value under the argument tuple
Store(cache, key, value, clock) ==
    [k \in DOMAIN cache \cup {key} |-> IF k = key THEN [at |-> clock, value |-> value] ELSE cache[k]]

Called(fn, args, value, requested) ==
    [fn |-> fn, args |-> args, at |-> now, value |-> value, requested |-> requested,
     upstream |-> upstream]

Requested(fn, args, value) ==
    [fn |-> fn, args |-> args, at |-> now, value |-> value, failed |-> upstream = "down"]

CallLive(coin_ids) ==
    /\ pc = "cache"
    /\ steps < MaxSteps
    /\ steps' = steps + 1
    /\ IF CacheHit(cache_live, coin_ids, TTL_LIVE, now)
       THEN /\ last' = Called("fetch_live_prices", coin_ids, cache_live[coin_ids].value, FALSE)
            /\ UNCHANGED <<cache_live, reqs>>
       ELSE LET value == fetch_live_prices(LiveUpstream(upstream, now, coin_ids))
            IN  /\ cache_live' = Store(cache_live, coin_ids, value, now)
                /\ reqs' = Append(reqs, Requested("fetch_live_prices", coin_ids, value))
                /\ last' = Called("fetch_live_prices", coin_ids, value, TRUE)
    /\ UNCHANGED <<pc, response, result, now, upstream, cache_hist>>

CallHist(args) ==
    /\ pc = "cache"
    /\ steps < MaxSteps
    /\ steps' = steps + 1
    /\ IF CacheHit(cache_hist, args, TTL_HIST, now)
       THEN /\ last' = Called("fetch_historical_market_chart", args, cache_hist[args].value, FALSE)
            /\ UNCHANGED <<cache_hist, reqs>>
       ELSE LET value == fetch_historical_market_chart(HistUpstream(upstream, now, args))
            IN  /\ cache_hist' = Store(cache_hist, args, value, now)
                /\ reqs' = Append(reqs, Requested("fetch_historical_market_chart", args, value))
                /\ last' = Called("fetch_historical_market_chart", args, value, TRUE)
    /\ UNCHANGED <<pc, response, result, now, upstream, cache_live>>

\* the clock advances
Deltas == {1, TTL_LIVE - 1, TTL_HIST - 1}

Tick(d) ==
    /\ pc = "cache"
    /\ steps < MaxSteps
    /\ steps' = steps + 1
    /\ now' = now + d
    /\ UNCHANGED <<pc, response, result, upstream, cache_live, cache_hist, last, reqs>>

\* the service fails or recovers
Outage ==
    /\ pc = "cache"
    /\ upstream = "up"
    /\ upstream' = "down"
    /\ UNCHANGED <<pc, response, result, now, cache_live, cache_hist, last, reqs, steps>>

Recover ==
    /\ pc = "cache"
    /\ upstream = "down"
    /\ upstream' = "up"
    /\ UNCHANGED <<pc, response, result, now, cache_live, cache_hist, last, reqs, steps>>

InitCache ==
    /\ pc = "cache"
    /\ response = Failure("timeout")
    /\ result = NoResult
    /\ now = 0
    /\ upstream \in {"up", "down"}
    /\ cache_live = <<>>
    /\ cache_hist = <<>>
    /\ last = NoCall
    /\ reqs = <<>>
    /\ steps = 0

NextCache ==
    \/ \E coin_ids \in LiveArgs : CallLive(coin_ids)
    \/ \E args \in HistArgs : CallHist(args)
    \/ \E d \in Deltas : Tick(d)
    \/ Outage
    \/ Recover

SpecCache == InitCache /\ [][NextCache]_vars

(***************************************************************************)
(* Properties.                                                             *)
(***************************************************************************)
LiveDone == pc = "done_live"
HistDone == pc = "done_hist"
EmptyResult == [raised |-> FALSE, table |-> <<>>]

\* the number a row field holds
IsNumber(r, x) == r.n = x /\ r.d = 1

\* C2: for both fetch paths every failure of the upstream request (timeout,
\* connection error, non-success status, undecodable body, a body that is no
\* object) returns the empty table, and no call ever raises to its caller.
C2_FailureReturnsEmptyTable ==
    (LiveDone \/ HistDone) =>
        /\ ~result.raised
        /\ response.kind \in FailureKinds => result = EmptyResult

C2_Witness ==
    /\ HistDone
    /\ response.kind = "undecodable"
    /\ result = EmptyResult

\* C3: for a decoded snapshot payload the table has exactly one row for each
\* instrument of the payload and no other row, whatever the field values.
C3_OneRowPerInstrument ==
    (LiveDone /\ response.kind = "ok") =>
        /\ Len(result.table) = Len(response.payload)
        /\ \A k \in 1..Len(response.payload) :
              result.table[k].id = response.payload[k].ticker

\* the row field of a payload key
RowField(row, key) ==
    CASE key = "usd" -> row.last_price
      [] key = "usd_24h_change" -> row.change_pct
      [] key = "usd_24h_vol" -> row.volume
      [] key = "usd_market_cap" -> row.market_cap

\* C4: a missing or null usd, usd_24h_change, usd_24h_vol or usd_market_cap
\* gives a row whose last_price, change_pct, volume or market_cap is exactly 0:
\* the row is there and the field is 0.
C4_MissingOrNullIsZero ==
    (LiveDone /\ response.kind = "ok") =>
        \A k \in 1..Len(response.payload) : \A key \in Keys :
            LET metrics == response.payload[k].metrics
            IN  (key \notin DOMAIN metrics \/ metrics[key] = Null) =>
                    \E j \in 1..Len(result.table) :
                        /\ result.table[j].id = response.payload[k].ticker
                        /\ IsNumber(RowField(result.table[j], key), 0)

\* the change of an entry as the loop reads it, and whether a step divides by zero
ChangeOf(metrics) ==
    IF "usd_24h_change" \in DOMAIN metrics /\ metrics["usd_24h_change"] # Null
    THEN metrics["usd_24h_change"].v ELSE 0

ZeroStep(change) == \E i \in 0..6 : 600 + change * i = 0

\* C5: a snapshot entry whose change makes a step denominator
\* 1 + change_pct/100 * (i/6) zero (change_pct = -100 at i = 6, and -120, -150,
\* -200, -300, -600), with any last_price including 0, does not crash the call:
\* fetch_live_prices returns without raising.
C5_ZeroDenominatorDoesNotCrash ==
    (/\ LiveDone
     /\ response.kind = "ok"
     /\ \E k \in 1..Len(response.payload) : ZeroStep(ChangeOf(response.payload[k].metrics)))
        => ~result.raised

C5_Witness ==
    /\ LiveDone
    /\ response.kind = "ok"
    /\ Len(response.payload) = 1
    /\ response.payload[1].metrics = Metrics(Num(0), Num(-100), Absent, Absent)
    /\ ~result.raised


\* the payload's price and change of the instrument of a row
EntryOf(row) ==
    CHOOSE e \in {response.payload[k] : k \in 1..Len(response.payload)} : e.ticker = row.id

\* element k of a sparkline is last_price / (1 + change_pct/100 * (i/6)), i = 7 - k
IsSparkElement(x, price, change, i) == x.n * (600 + change * i) = 600 * price * x.d

NonDecreasing(xs) == \A k \in 1..(Len(xs) - 1) : xs[k].n * xs[k + 1].d <= xs[k + 1].n * xs[k].d
NonIncreasing(xs) == \A k \in 1..(Len(xs) - 1) : xs[k].n * xs[k + 1].d >= xs[k + 1].n * xs[k].d

SparkShape(row) ==
    LET price == EntryOf(row).metrics["usd"].v
        change == EntryOf(row).metrics["usd_24h_change"].v
    IN  /\ Len(row.open) = 7
        /\ \A k \in 1..7 : IsSparkElement(row.open[k], price, change, 7 - k)
        /\ IsNumber(row.open[7], price)
        /\ change = 0 => \A k \in 1..7 : IsNumber(row.open[k], price)

SparkMonotone(row) ==
    IF EntryOf(row).metrics["usd_24h_change"].v >= 0
    THEN NonDecreasing(row.open)
    ELSE NonIncreasing(row.open)

\* rows synthesised from a numeric price >= 0 and a numeric change
NumericRows ==
    {result.table[k] : k \in {j \in 1..Len(result.table) :
        LET m == response.payload[j].metrics
        IN  /\ {"usd", "usd_24h_change"} \subseteq DOMAIN m
            /\ m["usd"] # Null /\ m["usd_24h_change"] # Null
            /\ m["usd"].v >= 0}}

\* C9 as stated: every synthesised sparkline has 7 elements
\* last_price / (1 + change_pct/100 * (i/6)), i = 6 down to 0, ends in
\* last_price, is flat for change_pct = 0, and is monotone: non-decreasing
\* toward the end when change_pct >= 0, non-increasing when change_pct < 0.
C9_Original ==
    LiveDone => \A row \in NumericRows : SparkShape(row) /\ SparkMonotone(row)

\* C9 amended: the 7 elements, the last element and the flat line as stated;
\* the sparkline is monotone exactly when change_pct > -100 or last_price = 0
\* (below -100 the denominators change sign along the steps).
C9_SparklineShape ==
    LiveDone => \A row \in NumericRows :
        /\ SparkShape(row)
        /\ SparkMonotone(row) <=>
              \/ EntryOf(row).metrics["usd_24h_change"].v > -100
              \/ EntryOf(row).metrics["usd"].v = 0

\* synthesize_sparkline(100, 10): 7 elements from 1000/11 up to exactly 100
C9_Witness ==
    /\ LiveDone
    /\ Len(result.table) = 1
    /\ response.payload[1].metrics = Metrics(Num(100), Num(10), Absent, Absent)
    /\ result.table[1].open[1] = [n |-> 1000, d |-> 11]
    /\ result.table[1].open[7] = [n |-> 100, d |-> 1]
    /\ NonDecreasing(result.table[1].open)


\* the two sample series of a decoded history payload
PriceSeries == Get(response.payload, "prices", <<>>)
VolumeSeries == Get(response.payload, "total_volumes", <<>>)

HistJoined == HistDone /\ response.kind = "ok" /\ PriceSeries # <<>> /\ VolumeSeries # <<>>

\* the timestamp (ms) of a returned bar: the bar keeps the index label of its
\* row of the joined frame, whose date column holds the sample time
BarTs(bar) ==
    LET row == Merge(PricesFrame(response.payload), VolsFrame(response.payload))[bar.index + 1]
    IN  row.date \div 1000000

BarsOf(table) == {table[k] : k \in 1..Len(table)}

\* the history payload of the example: prices [(t1,10),(t2,20)], volumes [(t1,5),(t3,9)]
JoinExample ==
    Ok(HistData(<<[ts |-> 1, val |-> Num(10)], [ts |-> 2, val |-> Num(20)]>>,
                <<[ts |-> 1, val |-> Num(5)], [ts |-> 3, val |-> Num(9)]>>,
                {"prices", "total_volumes"}))

\* C6: for non-empty series, a bar exists for a timestamp only if a price
\* sample and a volume sample carry exactly that timestamp; every timestamp
\* with a non-null price and a non-null volume has its bar; a sample whose
\* timestamp is in one series only gives no bar; the example gives one bar, at
\* t1, with volume 5.
C6_BarsAreTheInnerJoin ==
    HistJoined =>
        /\ \A bar \in BarsOf(result.table) :
              /\ \E i \in 1..Len(PriceSeries) :
                    PriceSeries[i].ts = BarTs(bar) /\ PriceSeries[i].val = Num(bar.close)
              /\ \E j \in 1..Len(VolumeSeries) :
                    VolumeSeries[j].ts = BarTs(bar) /\ VolumeSeries[j].val = Num(bar.volume)
        /\ \A i \in 1..Len(PriceSeries), j \in 1..Len(VolumeSeries) :
              (/\ PriceSeries[i].ts = VolumeSeries[j].ts
               /\ PriceSeries[i].val # Null
               /\ VolumeSeries[j].val # Null)
                  => \E bar \in BarsOf(result.table) :
                        /\ BarTs(bar) = PriceSeries[i].ts
                        /\ bar.close = PriceSeries[i].val.v
                        /\ bar.volume = VolumeSeries[j].val.v
        /\ \A t \in Timestamps :
              (\/ \A i \in 1..Len(PriceSeries) : PriceSeries[i].ts # t
               \/ \A j \in 1..Len(VolumeSeries) : VolumeSeries[j].ts # t)
                  => \A bar \in BarsOf(result.table) : BarTs(bar) # t
        /\ response = JoinExample =>
              result.table = <<[index |-> 0, open |-> 10, high |-> 10, low |-> 10,
                                close |-> 10, volume |-> 5]>>

C6_Witness ==
    /\ HistDone
    /\ response = JoinExample
    /\ Len(result.table) = 1
    /\ result.table[1].volume = 5

Max(a, b) == IF a >= b THEN a ELSE b
Min(a, b) == IF a <= b THEN a ELSE b

\* C7: in the returned sequence close is the sampled price, the first bar's
\* open is its own close, every later bar's open is the close of the bar just
\* before it in the returned sequence, high = max(open, close) and
\* low = min(open, close).
C7_OpenIsPreviousClose ==
    HistJoined =>
        \A k \in 1..Len(result.table) :
            LET bar == result.table[k]
            IN  /\ \E i \in 1..Len(PriceSeries) :
                      PriceSeries[i].ts = BarTs(bar) /\ PriceSeries[i].val = Num(bar.close)
                /\ bar.open = IF k = 1 THEN bar.close ELSE result.table[k - 1].close
                /\ bar.high = Max(bar.open, bar.close)
                /\ bar.low = Min(bar.open, bar.close)

\* C8: whatever the order of the samples and whether or not a timestamp is
\* repeated in a series, the returned bars have strictly increasing timestamps.
C8_StrictlyIncreasingTimestamps ==
    HistJoined =>
        \A k \in 1..(Len(result.table) - 1) :
            BarTs(result.table[k]) < BarTs(result.table[k + 1])

(***************************************************************************)
(* Properties of the cached calls.                                         *)
(***************************************************************************)
\* the requests issued for the arguments of the last call, before that call
EarlierRequests ==
    LET mine == SelectSeq(reqs, LAMBDA r : r.fn = last.fn /\ r.args = last.args)
    IN  IF last.requested THEN SubSeq(mine, 1, Len(mine) - 1) ELSE mine

LastTTL == IF last.fn = "fetch_live_prices" THEN 60 ELSE 3600

\* C1: a call issues a network request if and only if no result for the same
\* function and argument tuple was fetched less than the TTL ago (60 and
\* 3600); a call that issues none returns the value of the latest fetch; a
\* fetch replaces the cached entry.
C1_RequestIffNoFreshEntry ==
    last.fn # "none" =>
        LET earlier == EarlierRequests
            young == \E k \in 1..Len(earlier) : last.at - earlier[k].at < LastTTL
            store == IF last.fn = "fetch_live_prices" THEN cache_live ELSE cache_hist
        IN  /\ last.requested <=> ~young
            /\ ~last.requested => last.value = earlier[Len(earlier)].value
            /\ last.requested =>
                  /\ reqs[Len(reqs)].at = last.at /\ reqs[Len(reqs)].value = last.value
                  /\ store[last.args] = [at |-> last.at, value |-> last.value]

\* the first call after the TTL has elapsed: a fresh request, exactly one TTL later
C1_Witness ==
    /\ last.fn = "fetch_historical_market_chart"
    /\ last.requested
    /\ EarlierRequests # <<>>
    /\ last.at - EarlierRequests[Len(EarlierRequests)].at = 3600
    /\ last.value # EarlierRequests[Len(EarlierRequests)].value

\* C10: the empty table of a failed request is cached like any result: until
\* the TTL has elapsed every call with the same arguments returns the empty
\* table and issues no request, also when the service is up again; the first
\* call after the TTL issues the request.
C10_FailureIsCached ==
    (/\ last.fn # "none"
     /\ EarlierRequests # <<>>
     /\ EarlierRequests[Len(EarlierRequests)].failed)
        => LET failure == EarlierRequests[Len(EarlierRequests)]
           IN  /\ failure.value = EmptyResult
               /\ last.at - failure.at < LastTTL => ~last.requested /\ last.value = EmptyResult
               /\ last.at - failure.at >= LastTTL => last.requested

C10_Witness ==
    /\ last.fn = "fetch_live_prices"
    /\ last.upstream = "up"
    /\ ~last.requested
    /\ last.value = EmptyResult
    /\ EarlierRequests # <<>>
    /\ EarlierRequests[Len(EarlierRequests)].failed
    /\ last.at - EarlierRequests[Len(EarlierRequests)].at = 59

=============================================================================
